---- MODULE Spec2Model ----
(***************************************************************************)
(* Passwordless authentication request / verification lifecycle of the     *)
(* sample applications: the Express service layer (authService.js), the    *)
(* Nuxt server handlers with the useAuth composable and Pinia store, and   *)
(* the Next.js verification routes.                                        *)
(*                                                                         *)
(* The identity provider (the SDK's passwordless client) is the            *)
(* environment: every awaited SDK call is answered either by a failure or, *)
(* when the provider knows the request and the credential matches, by a    *)
(* success.  Whether the provider retires a request when it accepts a      *)
(* credential is the provider's choice; the applications cannot observe it.*)
(***************************************************************************)
EXTENDS Integers, FiniteSets, Sequences, TLC

\* ---------------------------------------------------------------- bounds
MaxReq == 2          \* request ids the provider can issue: 1..MaxReq
MaxTime == 1         \* clock ticks
MaxOps == 3          \* service calls started in one run
TTL == 1             \* provider-side lifetime of a request, in ticks

NoReq == 0           \* an absent / empty authRequestId (undefined, "")
NoCred == NoReq      \* an absent / empty code or link token
WrongCred == MaxReq + 1   \* a code or link token that matches no request
ReqIds == 1..MaxReq
ReqArgs == {NoReq} \cup ReqIds
Creds == ReqIds \cup {WrongCred}   \* r: the code / link token mailed for request r
Emails == {"a@x", "b@x"}
NoEmail == "none"
BadEmail == "not-an-address"   \* a non-empty string that is no e-mail address
EmailArgs == Emails \cup {BadEmail}
Slots == {1, 2}      \* a call and a concurrent duplicate of it are in flight at most
ProviderErrors == {0, 401, 503}   \* err.response.status; 0: no HTTP response

VARIABLES
    now,            \* wall clock
    prov,           \* provider side: request id -> [st, email, exp]
    authRequests,   \* authService.js: Map authRequestId -> {email, createdAt}
    calls,          \* in-flight service calls, one record per slot
    last,           \* outcome of the call that completed most recently
    issued,         \* sessions returned per request id (0, 1, 2 = more than one)
    ops,            \* service calls started so far
    store,          \* Pinia auth store: user, authRequestId, passwordlessType, expiresAt
    ls,             \* localStorage entry pw_auth_req: {a, t, e}, or absent
    cookie,         \* the browser's pw_sess cookie: a token [email, exp, sig], or none
    loading,        \* useAuth: loading
    verifying,      \* useAuth: verifying
    mockDB,         \* mcp-api-demo: mockDB {users, projects}
    reply,          \* mcp-api-demo: what the last tool call returned or threw
    session,        \* SSO backend: properties set on the imported session object
    reqSession,     \* SSO backend: req.session of each client
    reqs,           \* SSO backend: each client's current request
    completed       \* SSO backend: clients whose /callback signed them in

service == <<authRequests>>
client == <<store, ls, cookie, loading, verifying>>
demo == <<mockDB, reply, session, reqSession, reqs, completed>>
passwordless == <<now, prov, authRequests, calls, last, issued, ops, store, ls, cookie, loading,
                  verifying>>
vars == <<now, prov, authRequests, calls, last, issued, ops, store, ls, cookie, loading,
          verifying, mockDB, reply, session, reqSession, reqs, completed>>

\* ---------------------------------------------------------------- helpers
NoMsg == "none"
Idle == [op |-> "idle", pc |-> "idle", email |-> NoEmail, rid |-> NoReq,
         cred |-> NoCred, base |-> 0, status |-> 0, exp |-> 0, pre |-> 0, msg |-> NoMsg,
         link |-> NoCred, asked |-> <<>>,
         resp |-> [authRequestId |-> NoReq, auth_request_id |-> NoReq,
                   passwordlessType |-> "none", passwordless_type |-> "none",
                   expiresAt |-> 0, expires_at |-> 0]]
NoResult == [op |-> "none", rid |-> NoReq, cred |-> NoCred, ok |-> FALSE, status |-> 0,
             exp |-> 0, pre |-> 0]
NoProv == [st |-> "none", email |-> NoEmail, exp |-> 0]

Tracked == DOMAIN authRequests

\* Request ids that were tracked and whose entry a successful verify deleted.
Consumed == {r \in ReqIds : prov[r].st /= "none" /\ r \notin Tracked}

Sat(n) == IF n >= 2 THEN 2 ELSE n + 1

\* authRequests.set(id, {email, createdAt})
MapSet(m, k, v) == [x \in (DOMAIN m) \cup {k} |-> IF x = k THEN v ELSE m[x]]
\* authRequests.delete(id)
MapDelete(m, k) == [x \in (DOMAIN m) \ {k} |-> m[x]]

\* wrapSDKError: status = err.response.status || 502
wrapSDKError(s) == IF s /= 0 THEN s ELSE 502

\* The request a credential is checked against by the provider: a code is
\* checked against the authRequestId passed with it, a link token names its
\* own request and an authRequestId passed with it must agree.
TargetOf(op, cr, r) ==
    IF op = "verifyCode" THEN r
    ELSE IF cr \in ReqIds /\ (r = NoReq \/ r = cr) THEN cr ELSE NoReq

Target(c) == TargetOf(c.op, c.cred, c.rid)

\* Sessions already returned for the request a starting verification is for.
Base(op, cr, r) == IF TargetOf(op, cr, r) \in ReqIds THEN issued[TargetOf(op, cr, r)] ELSE 0

\* The provider can accept the credential of call c.
ProviderAccepts(c) ==
    /\ Target(c) \in ReqIds
    /\ c.cred = Target(c)
    /\ prov[Target(c)].st = "live"
    /\ now < prov[Target(c)].exp

\* Slot c takes the next call: the lowest idle slot, while calls remain.
FreeSlot(c) ==
    /\ ops < MaxOps
    /\ ops' = ops + 1
    /\ calls[c].pc = "idle"
    /\ \A q \in Slots : q < c => calls[q].pc /= "idle"

Done(c, res) ==
    /\ calls' = [calls EXCEPT ![c] = Idle]
    /\ last' = res

Success(c, r) ==
    [op |-> calls[c].op, rid |-> r, cred |-> calls[c].cred, ok |-> TRUE, status |-> 200,
     exp |-> 0, pre |-> 0]

Failure(c, s) ==
    [op |-> calls[c].op, rid |-> calls[c].rid, cred |-> calls[c].cred, ok |-> FALSE,
     status |-> s, exp |-> 0, pre |-> 0]

\* ---------------------------------------------------------------- Init
\* utils/session.ts: the JWT in the pw_sess cookie
SessionTTL == 2      \* expiresIn: '1d', longer than any run of requests
Secret == "jwtSecret"
Forged == "forged"   \* a signature not made with cfg.jwtSecret
NoToken == [email |-> NoEmail, exp |-> 0, sig |-> "none"]

\* setUserSession at time t: jwt.sign({email, createdAt}, jwtSecret, {expiresIn: '1d'})
setUserSession(e, t) == [email |-> e, exp |-> t + SessionTTL, sig |-> Secret]

\* Variant of getUserSession that reads the payload without checking the
\* signature (jwt.decode for jwt.verify).
getUserSessionNoVerify(tok) ==
    IF tok = NoToken THEN NoEmail
    ELSE IF now < tok.exp THEN tok.email ELSE NoEmail

\* getUserSession: the payload's email, or none (null) for a missing cookie
\* and for a token jwt.verify throws on.
getUserSession(tok) ==
    IF tok = NoToken THEN NoEmail
    ELSE IF tok.sig = Secret /\ now < tok.exp THEN tok.email ELSE NoEmail

\* session.get.ts: { authenticated: !!sess, user: sess ? { email } : null }
sessionGet(tok) ==
    [authenticated |-> getUserSession(tok) /= NoEmail, user |-> getUserSession(tok)]

NoType == "none"
NoLS == [a |-> NoReq, t |-> NoType, e |-> 0]
EmptyStore == [user |-> NoEmail, authRequestId |-> NoReq, passwordlessType |-> NoType,
               expiresAt |-> 0]

\* ------------------------------------------------------------ mcp-api-demo
\* Ids are `u${n}` and `prj${n}`: modelled by the number n; 0 stands for an id
\* of another form ("nope").  A user's name plays no part and is left out.
MaxProjects == 2
NoId == 0

\* mock-api.ts: users, tasks, projects
users0 == <<[id |-> 1, email |-> "alice@example.com"],
            [id |-> 2, email |-> "bob@example.com"]>>
tasks == <<[id |-> "t1", estimate |-> 5, isActive |-> TRUE],
           [id |-> "t2", estimate |-> 3, isActive |-> FALSE],
           [id |-> "t3", estimate |-> 2, isActive |-> TRUE]>>
NoReply == [tool |-> "none", code |-> "none", email |-> NoEmail, userId |-> NoId,
            taskIds |-> <<>>, id |-> NoId, total |-> 0]

\* ------------------------------------------------------------ SSO backend
Clients == {1, 2}
NoView == "none"
NoRequest == [route |-> "none", pc |-> "idle", code |-> FALSE, error |-> FALSE,
              idp |-> FALSE, sent |-> 0, status |-> 0, view |-> NoView]
NoSession == [isloggedin |-> FALSE, email |-> NoEmail]

\* The demos' module state when the process starts.
InitDemo ==
    /\ mockDB = [users |-> users0, projects |-> <<>>]
    /\ reply = NoReply
    /\ session = NoSession
    /\ reqSession = [k \in Clients |-> NoSession]
    /\ reqs = [k \in Clients |-> NoRequest]
    /\ completed = {}

InitShared ==
    /\ InitDemo
    /\ now = 0
    /\ prov = [r \in ReqIds |-> NoProv]
    /\ calls = [c \in Slots |-> Idle]
    /\ last = NoResult
    /\ issued = [r \in ReqIds |-> 0]
    /\ ops = 0
    /\ authRequests = <<>>
    /\ store = EmptyStore
    /\ ls = NoLS
    /\ cookie = NoToken
    /\ loading = FALSE
    /\ verifying = FALSE

Init == InitShared

Tick ==
    /\ UNCHANGED demo
    /\ /\ now < MaxTime
       /\ now' = now + 1
       /\ UNCHANGED <<prov, authRequests, calls, last, issued, ops, client>>

\* ------------------------------------------------ authService.js (Express)
\* sendPasswordlessEmail(email): up to the awaited SDK call.
sendPasswordlessEmail(c, e) ==
    /\ UNCHANGED demo
    /\ /\ FreeSlot(c)
       /\ calls' = [calls EXCEPT ![c] = [Idle EXCEPT !.op = "send", !.pc = "provider", !.email = e]]
       /\ UNCHANGED <<now, prov, authRequests, last, issued, client>>

\* The SDK call returns: authRequests.set(...) on success, wrapSDKError on failure.
sendReturns(c) ==
    /\ UNCHANGED demo
    /\ /\ calls[c].op = "send" /\ calls[c].pc = "provider"
       /\ \/ \E r \in ReqIds :
               /\ prov[r].st = "none"
               /\ \A q \in ReqIds : q < r => prov[q].st /= "none"
               /\ prov' = [prov EXCEPT ![r] = [st |-> "live", email |-> calls[c].email, exp |-> now + TTL]]
               /\ authRequests' = MapSet(authRequests, r, [email |-> calls[c].email, createdAt |-> now])
               /\ Done(c, Success(c, r))
          \/ \E s \in ProviderErrors :
               /\ Done(c, Failure(c, wrapSDKError(s)))
               /\ UNCHANGED <<prov, authRequests>>
       /\ UNCHANGED <<now, issued, ops, client>>

\* resendPasswordlessEmail(authRequestId): up to the awaited SDK call.
resendPasswordlessEmail(c, r) ==
    /\ UNCHANGED demo
    /\ /\ FreeSlot(c)
       /\ calls' = [calls EXCEPT ![c] = [Idle EXCEPT !.op = "resend", !.pc = "provider", !.rid = r]]
       /\ UNCHANGED <<now, prov, authRequests, last, issued, client>>

\* Variant of resendReturns that stores the response the way
\* sendPasswordlessEmail does (authRequests.set on success).
resendReturnsTracks(c) ==
    /\ UNCHANGED demo
    /\ /\ calls[c].op = "resend" /\ calls[c].pc = "provider"
       /\ \/ /\ calls[c].rid /= NoReq
             /\ prov[calls[c].rid].st = "live"
             /\ prov' = [prov EXCEPT ![calls[c].rid].exp = now + TTL]
             /\ authRequests' = MapSet(authRequests, calls[c].rid,
                                       [email |-> prov[calls[c].rid].email, createdAt |-> now])
             /\ Done(c, Success(c, calls[c].rid))
          \/ \E s \in ProviderErrors :
               /\ Done(c, Failure(c, wrapSDKError(s)))
               /\ UNCHANGED <<prov, authRequests>>
       /\ UNCHANGED <<now, issued, ops, client>>

\* The SDK call returns: the response is handed back as is, or wrapSDKError.
resendReturns(c) ==
    /\ UNCHANGED demo
    /\ /\ calls[c].op = "resend" /\ calls[c].pc = "provider"
       /\ \/ /\ calls[c].rid /= NoReq
             /\ prov[calls[c].rid].st = "live"
             /\ prov' = [prov EXCEPT ![calls[c].rid].exp = now + TTL]
             /\ Done(c, Success(c, calls[c].rid))
          \/ \E s \in ProviderErrors :
               /\ Done(c, Failure(c, wrapSDKError(s)))
               /\ UNCHANGED prov
       /\ UNCHANGED <<now, authRequests, issued, ops, client>>

\* The call record of a verification that has reached its awaited SDK call.
VerifyCall(op, cr, r) ==
    [Idle EXCEPT !.op = op, !.pc = "provider", !.rid = r, !.cred = cr,
                 !.base = Base(op, cr, r)]

\* verifyWithCode(code, authRequestId): up to the awaited SDK call.
\* authRequests is not read.
verifyWithCode(c, code, r) ==
    /\ UNCHANGED demo
    /\ /\ FreeSlot(c)
       /\ calls' = [calls EXCEPT ![c] = VerifyCall("verifyCode", code, r)]
       /\ UNCHANGED <<now, prov, authRequests, last, issued, client>>

\* verifyWithLink(linkToken, authRequestId): up to the awaited SDK call.
\* authRequests is not read and an absent authRequestId is passed on.
verifyWithLink(c, linkToken, r) ==
    /\ UNCHANGED demo
    /\ /\ FreeSlot(c)
       /\ calls' = [calls EXCEPT ![c] = VerifyCall("verifyLink", linkToken, r)]
       /\ UNCHANGED <<now, prov, authRequests, last, issued, client>>

\* Variant of verifyReturns whose catch block also drops the tracking entry.
verifyReturnsDropsOnFailure(c) ==
    /\ UNCHANGED demo
    /\ /\ calls[c].op \in {"verifyCode", "verifyLink"} /\ calls[c].pc = "provider"
       /\ \/ /\ ProviderAccepts(calls[c])
             /\ \E retire \in BOOLEAN :
                  prov' = [prov EXCEPT ![Target(calls[c])].st = IF retire THEN "used" ELSE "live"]
             /\ calls' = [calls EXCEPT ![c].pc = "lookup", ![c].email = prov[Target(calls[c])].email]
             /\ UNCHANGED <<last, authRequests>>
          \/ \E s \in ProviderErrors :
               /\ Done(c, Failure(c, wrapSDKError(s)))
               /\ authRequests' = MapDelete(authRequests, calls[c].rid)
               /\ UNCHANGED prov
       /\ UNCHANGED <<now, issued, ops, client>>

\* Variant of verifyReturns whose catch block swallows the provider's error and
\* goes on to finalizeUserSessionAsync.
verifyReturnsIgnoresFailure(c) ==
    /\ UNCHANGED demo
    /\ /\ calls[c].op \in {"verifyCode", "verifyLink"} /\ calls[c].pc = "provider"
       /\ \/ /\ ProviderAccepts(calls[c])
             /\ \E retire \in BOOLEAN :
                  prov' = [prov EXCEPT ![Target(calls[c])].st = IF retire THEN "used" ELSE "live"]
             /\ calls' = [calls EXCEPT ![c].pc = "lookup", ![c].email = prov[Target(calls[c])].email]
             /\ UNCHANGED last
          \/ \E s \in ProviderErrors :
               /\ calls' = [calls EXCEPT ![c].pc = "lookup"]
               /\ UNCHANGED <<prov, last>>
       /\ UNCHANGED <<now, authRequests, issued, ops, client>>

\* The SDK verification returns.  On success finalizeUserSessionAsync starts
\* and runs to its first await (the profile query); on failure the catch
\* block throws wrapSDKError.
verifyReturns(c) ==
    /\ UNCHANGED demo
    /\ /\ calls[c].op \in {"verifyCode", "verifyLink"} /\ calls[c].pc = "provider"
       /\ \/ /\ ProviderAccepts(calls[c])
             /\ \E retire \in BOOLEAN :
                  prov' = [prov EXCEPT ![Target(calls[c])].st = IF retire THEN "used" ELSE "live"]
             /\ calls' = [calls EXCEPT ![c].pc = "lookup", ![c].email = prov[Target(calls[c])].email]
             /\ UNCHANGED last
          \/ \E s \in ProviderErrors :
               /\ Done(c, Failure(c, wrapSDKError(s)))
               /\ UNCHANGED prov
       /\ UNCHANGED <<now, authRequests, issued, ops, client>>

\* finalizeUserSessionAsync: the profile query returns a profile or none (the
\* collection is an external database), or throws.
finalizeLookup(c) ==
    /\ UNCHANGED demo
    /\ /\ calls[c].pc = "lookup"
       /\ \/ /\ \E empty \in BOOLEAN :
                  calls' = [calls EXCEPT ![c].pc = IF empty THEN "insert" ELSE "token"]
             /\ UNCHANGED last
          \/ Done(c, Failure(c, wrapSDKError(0)))
       /\ UNCHANGED <<now, prov, authRequests, issued, ops, client>>

\* finalizeUserSessionAsync: the new profile is written (or the write throws).
finalizeInsert(c) ==
    /\ UNCHANGED demo
    /\ /\ calls[c].pc = "insert"
       /\ \/ /\ calls' = [calls EXCEPT ![c].pc = "token"]
             /\ UNCHANGED last
          \/ Done(c, Failure(c, wrapSDKError(0)))
       /\ UNCHANGED <<now, prov, authRequests, issued, ops, client>>

\* Variant of finalizeToken that empties the whole map (authRequests.clear()).
finalizeTokenClearsAll(c) ==
    /\ UNCHANGED demo
    /\ /\ calls[c].pc = "token"
       /\ \/ /\ authRequests' = IF calls[c].rid /= NoReq THEN <<>> ELSE authRequests
             /\ issued' = [issued EXCEPT ![Target(calls[c])] = Sat(@)]
             /\ Done(c, Success(c, calls[c].rid))
          \/ /\ Done(c, Failure(c, wrapSDKError(0)))
             /\ UNCHANGED <<authRequests, issued>>
       /\ UNCHANGED <<now, prov, ops, client>>

\* finalizeUserSessionAsync: createCustomToken returns; the tracking entry is
\* deleted (if an authRequestId was passed) and the session data returned.
finalizeToken(c) ==
    /\ UNCHANGED demo
    /\ /\ calls[c].pc = "token"
       /\ \/ /\ authRequests' = IF calls[c].rid /= NoReq
                                   THEN MapDelete(authRequests, calls[c].rid)
                                   ELSE authRequests
             /\ issued' = [issued EXCEPT ![Target(calls[c])] = Sat(@)]
             /\ Done(c, Success(c, calls[c].rid))
          \/ /\ Done(c, Failure(c, wrapSDKError(0)))
             /\ UNCHANGED <<authRequests, issued>>
       /\ UNCHANGED <<now, prov, ops, client>>

\* --------------------------------------------------- stores/auth.ts (Pinia)
ProviderType == "LINK_OTP"     \* the passwordless type the environment is set up for
NumericTypes == {"#0", "#1", "#2", "#3", "#9"}   \* numeric enum values on the wire

Modes == {"OTP", "LINK", "LINK_OTP"}

\* Variant of MapType with the enum values shifted by one.
MapTypeShifted(t) ==
    IF t = "#1" THEN "LINK" ELSE IF t = "#2" THEN "LINK_OTP"
    ELSE IF t = "#3" THEN "OTP" ELSE NoType

\* const map = { 1: 'OTP', 2: 'LINK', 3: 'LINK_OTP' }
MapType(t) ==
    IF t = "#1" THEN "OTP" ELSE IF t = "#2" THEN "LINK"
    ELSE IF t = "#3" THEN "LINK_OTP" ELSE NoType

\* Variant of setAuthRequest that does not take the response's expiresAt.
setAuthRequestKeepsExpiry(st, rid, type, exp) ==
    [st EXCEPT !.authRequestId = IF rid /= NoReq THEN rid ELSE @,
               !.passwordlessType = IF type /= NoType THEN type ELSE @]

\* setAuthRequest(resp): each field is taken from the response, else kept.
setAuthRequest(st, rid, type, exp) ==
    LET t == IF type \in NumericTypes
             THEN (IF MapType(type) /= NoType THEN MapType(type) ELSE st.passwordlessType)
             ELSE type
    IN [st EXCEPT !.authRequestId = IF rid /= NoReq THEN rid ELSE @,
                  !.passwordlessType = IF t /= NoType THEN t ELSE @,
                  !.expiresAt = IF exp /= 0 THEN exp ELSE @]

\* A response as it arrives: each field in camelCase (SDK) and snake_case (raw
\* API), absent or set.
NoResp == [authRequestId |-> NoReq, auth_request_id |-> NoReq,
           passwordlessType |-> NoType, passwordless_type |-> NoType,
           expiresAt |-> 0, expires_at |-> 0]

\* a || b for the type fields: 0 is falsy as well as an absent field
TypeOr(a, b) == IF a \notin {NoType, "#0"} THEN a ELSE b

\* setAuthRequest(resp) with its field look-ups:
\* resp.authRequestId || resp.auth_request_id, resp.passwordlessType ||
\* resp.passwordless_type, resp.expiresAt || resp.expires_at.
setAuthRequestResp(st, resp) ==
    setAuthRequest(st,
                   IF resp.authRequestId /= NoReq THEN resp.authRequestId
                                                  ELSE resp.auth_request_id,
                   TypeOr(resp.passwordlessType, resp.passwordless_type),
                   IF resp.expiresAt /= 0 THEN resp.expiresAt ELSE resp.expires_at)

\* localStorage.setItem(LS_KEY, JSON.stringify({a, t, e}))
Persist(st) == [a |-> st.authRequestId, t |-> st.passwordlessType, e |-> st.expiresAt]

\* ------------------------------------------- Nuxt server: /api/passwordless
NuxtProviderErrors == ProviderErrors \cup {429}

\* The handler of call c answers: the HTTP response travels back to the client
\* (the request body is gone; an error response carries a status only).
RespondMsg(c, st, r, e, x, m) ==
    calls' = [calls EXCEPT ![c].pc = "reply", ![c].status = st, ![c].rid = r,
                           ![c].email = e, ![c].exp = x, ![c].msg = m,
                           ![c].cred = NoCred, ![c].base = 0]

Respond(c, st, r, e, x) == RespondMsg(c, st, r, e, x, NoMsg)

\* send.post.ts: 400 without an email, else the SDK call; 500 when it throws.
sendPost(c) ==
    /\ UNCHANGED demo
    /\ /\ calls[c].op = "send" /\ calls[c].pc = "fetch"
       /\ \/ /\ calls[c].email = NoEmail
             /\ Respond(c, 400, NoReq, NoEmail, 0)
             /\ UNCHANGED prov
          \/ /\ calls[c].email /= NoEmail
             /\ \/ \E r \in ReqIds :
                     /\ prov[r].st = "none"
                     /\ \A q \in ReqIds : q < r => prov[q].st /= "none"
                     /\ prov' = [prov EXCEPT ![r] = [st |-> "live", email |-> calls[c].email,
                                                     exp |-> now + TTL]]
                     /\ Respond(c, 200, r, calls[c].email, now + TTL)
                \/ /\ \E s \in NuxtProviderErrors : Respond(c, 500, NoReq, NoEmail, 0)
                   /\ UNCHANGED prov
       /\ UNCHANGED <<now, authRequests, last, issued, ops, client>>

\* resend.post.ts: 400 without an authRequestId, else the SDK call; 500 when
\* it throws.  The id is not compared with anything.
resendPost(c) ==
    /\ UNCHANGED demo
    /\ /\ calls[c].op = "resend" /\ calls[c].pc = "fetch"
       /\ \/ /\ calls[c].rid = NoReq
             /\ Respond(c, 400, NoReq, NoEmail, 0)
             /\ UNCHANGED prov
          \/ /\ calls[c].rid /= NoReq
             /\ \/ /\ prov[calls[c].rid].st = "live"
                   /\ prov' = [prov EXCEPT ![calls[c].rid].exp = now + TTL]
                   /\ Respond(c, 200, calls[c].rid, NoEmail, now + TTL)
                \/ /\ \E s \in NuxtProviderErrors : Respond(c, 500, NoReq, NoEmail, 0)
                   /\ UNCHANGED prov
       /\ UNCHANGED <<now, authRequests, last, issued, ops, client>>

\* verify.post.ts with body {code, linkToken, authRequestId}: the status and the
\* email of the session it sets (none unless the status is 200).
\* The credential handed to the SDK is the code when there is one.
VerifyArg(code, linkToken, r) ==
    [op |-> IF code /= NoCred THEN "verifyCode" ELSE "verifyLink",
     cred |-> IF code /= NoCred THEN code ELSE linkToken,
     rid |-> r]

\* statusMessage of the errors verify.post.ts throws
MsgRequired == "code or linkToken required"
MsgLinkNeedsId == "auth_request_id is required for link token verification"
MsgNoEmail == "No email in verification response"
MsgRateLimit == "Too many attempts. Restart flow."
MsgProvider == "e.message"        \* the message of the SDK's error
Msgs == {NoMsg, MsgRequired, MsgLinkNeedsId, MsgNoEmail, MsgRateLimit, MsgProvider}

\* Variant of verifyHandler without the check for a missing code / linkToken.
verifyHandlerNoRequiredCheck(code, linkToken, r, st, e, m) ==
    \/ /\ linkToken /= NoCred /\ r = NoReq
       /\ st = 400 /\ e = NoEmail /\ m = MsgLinkNeedsId
       /\ UNCHANGED <<prov, issued>>
    \/ /\ ~(linkToken /= NoCred /\ r = NoReq)
       /\ \/ /\ ProviderAccepts(VerifyArg(code, linkToken, r))
             /\ \E retire \in BOOLEAN :
                  prov' = [prov EXCEPT ![Target(VerifyArg(code, linkToken, r))].st =
                                           IF retire THEN "used" ELSE "live"]
             /\ \/ /\ st = 200 /\ m = NoMsg
                   /\ e = prov[Target(VerifyArg(code, linkToken, r))].email
                   /\ issued' = [issued EXCEPT ![Target(VerifyArg(code, linkToken, r))] = Sat(@)]
                \/ /\ st = 400 /\ m = MsgNoEmail
                   /\ e = NoEmail
                   /\ UNCHANGED issued
          \/ /\ \E s \in NuxtProviderErrors :
                  /\ st = IF s = 429 THEN 429 ELSE 400
                  /\ m = IF s = 429 THEN MsgRateLimit ELSE MsgProvider
             /\ e = NoEmail
             /\ UNCHANGED <<prov, issued>>

\* Variant of ProviderCalls that hands over the link token when there is one.
ProviderCallsLinkFirst(code, linkToken, r) ==
    IF code = NoCred /\ linkToken = NoCred THEN <<>>
    ELSE IF linkToken /= NoCred /\ r = NoReq THEN <<>>
    ELSE <<VerifyArg(IF linkToken /= NoCred THEN NoCred ELSE code, linkToken, r)>>

\* The calls of sk.passwordless.verifyPasswordlessEmail the handler makes for a
\* body: none when it throws before, else the one call, with the code when
\* there is one (body.code ? { code } : { linkToken }).
ProviderCalls(code, linkToken, r) ==
    IF code = NoCred /\ linkToken = NoCred THEN <<>>
    ELSE IF linkToken /= NoCred /\ r = NoReq THEN <<>>
    ELSE <<VerifyArg(code, linkToken, r)>>

verifyHandler(code, linkToken, r, st, e, m) ==
    \/ /\ code = NoCred /\ linkToken = NoCred
       /\ st = 400 /\ e = NoEmail /\ m = MsgRequired
       /\ UNCHANGED <<prov, issued>>
    \/ /\ ~(code = NoCred /\ linkToken = NoCred)
       /\ linkToken /= NoCred /\ r = NoReq
       /\ st = 400 /\ e = NoEmail /\ m = MsgLinkNeedsId
       /\ UNCHANGED <<prov, issued>>
    \/ /\ ~(code = NoCred /\ linkToken = NoCred)
       /\ ~(linkToken /= NoCred /\ r = NoReq)
       /\ \/ /\ ProviderAccepts(ProviderCalls(code, linkToken, r)[1])
             /\ \E retire \in BOOLEAN :
                  prov' = [prov EXCEPT ![Target(ProviderCalls(code, linkToken, r)[1])].st =
                                           IF retire THEN "used" ELSE "live"]
             /\ \/ /\ st = 200 /\ m = NoMsg     \* setUserSession(event, verifyResp.email)
                   /\ e = prov[Target(ProviderCalls(code, linkToken, r)[1])].email
                   /\ issued' = [issued EXCEPT ![Target(ProviderCalls(code, linkToken, r)[1])] = Sat(@)]
                \/ /\ st = 400 /\ m = MsgNoEmail  \* no email in the verification response
                   /\ e = NoEmail
                   /\ UNCHANGED issued
          \/ /\ \E s \in NuxtProviderErrors :
                  /\ st = IF s = 429 THEN 429 ELSE 400
                  /\ m = IF s = 429 THEN MsgRateLimit ELSE MsgProvider
             /\ e = NoEmail
             /\ UNCHANGED <<prov, issued>>

Statuses == {200, 400, 429, 500}

\* verify.post.ts answering the request of client call c.
verifyPost(c) ==
    /\ UNCHANGED demo
    /\ /\ calls[c].op \in {"verifyCode", "verifyLink"} /\ calls[c].pc = "fetch"
       /\ \E st \in Statuses, e \in Emails \cup {NoEmail}, m \in Msgs :
            /\ verifyHandler(IF calls[c].op = "verifyCode" THEN calls[c].cred ELSE NoCred,
                             IF calls[c].op = "verifyLink" THEN calls[c].cred ELSE NoCred,
                             calls[c].rid, st, e, m)
            /\ RespondMsg(c, st, IF st = 200 THEN calls[c].rid ELSE NoReq, e,
                          IF st = 200 THEN setUserSession(e, now).exp ELSE 0, m)
       /\ UNCHANGED <<now, authRequests, last, ops, client>>

\* ------------------------------------------------ composables/useAuth.ts
\* What a useAuth function hands back: the response, or nothing after a
\* failure (the catch blocks only set the error message).
Outcome(c) ==
    IF calls[c].status = 200
    THEN [op |-> calls[c].op, rid |-> calls[c].rid, cred |-> NoCred, ok |-> TRUE,
          status |-> 200, exp |-> calls[c].exp, pre |-> calls[c].pre]
    ELSE [NoResult EXCEPT !.op = calls[c].op]

\* send(email): up to the awaited $fetch.
send(c, e) ==
    /\ UNCHANGED demo
    /\ /\ FreeSlot(c)
       /\ loading' = TRUE
       /\ calls' = [calls EXCEPT ![c] = [Idle EXCEPT !.op = "send", !.pc = "fetch", !.email = e]]
       /\ UNCHANGED <<now, prov, authRequests, last, issued, store, ls, cookie, verifying>>

\* send: the response arrives; try / catch / finally.
sendReply(c) ==
    /\ UNCHANGED demo
    /\ /\ calls[c].op = "send" /\ calls[c].pc = "reply"
       /\ IF calls[c].status = 200
          THEN /\ store' = setAuthRequest(store, calls[c].rid, ProviderType, calls[c].exp)
               /\ ls' = Persist(store')
          ELSE UNCHANGED <<store, ls>>
       /\ loading' = FALSE /\ verifying' = FALSE
       /\ Done(c, Outcome(c))
       /\ UNCHANGED <<now, prov, authRequests, issued, ops, cookie>>

\* Variant of sendAbort whose catch block also forgets the tracked request.
sendAbortForgets(c) ==
    /\ UNCHANGED demo
    /\ /\ calls[c].op = "send" /\ calls[c].pc \in {"fetch", "reply"}
       /\ loading' = FALSE /\ verifying' = FALSE
       /\ store' = [store EXCEPT !.authRequestId = NoReq, !.passwordlessType = NoType,
                                 !.expiresAt = 0]
       /\ ls' = NoLS
       /\ Done(c, [NoResult EXCEPT !.op = "send"])
       /\ UNCHANGED <<now, prov, authRequests, issued, ops, cookie>>

\* send: the 15 s timer aborts the request before its response is handled.
sendAbort(c) ==
    /\ UNCHANGED demo
    /\ /\ calls[c].op = "send" /\ calls[c].pc \in {"fetch", "reply"}
       /\ loading' = FALSE /\ verifying' = FALSE
       /\ Done(c, [NoResult EXCEPT !.op = "send"])
       /\ UNCHANGED <<now, prov, authRequests, issued, ops, store, ls, cookie>>

\* resend(): nothing without a tracked request, else up to the awaited $fetch.
resend(c) ==
    /\ UNCHANGED demo
    /\ /\ store.authRequestId /= NoReq
       /\ FreeSlot(c)
       /\ loading' = TRUE
       /\ calls' = [calls EXCEPT ![c] = [Idle EXCEPT !.op = "resend", !.pc = "fetch",
                                                     !.rid = store.authRequestId,
                                                     !.pre = store.expiresAt]]
       /\ UNCHANGED <<now, prov, authRequests, last, issued, store, ls, cookie, verifying>>

\* resend: the response arrives; try / catch / finally.
resendReply(c) ==
    /\ UNCHANGED demo
    /\ /\ calls[c].op = "resend" /\ calls[c].pc = "reply"
       /\ IF calls[c].status = 200
          THEN /\ store' = setAuthRequest(store, calls[c].rid, ProviderType, calls[c].exp)
               /\ ls' = Persist(store')
          ELSE UNCHANGED <<store, ls>>
       /\ loading' = FALSE
       /\ Done(c, Outcome(c))
       /\ UNCHANGED <<now, prov, authRequests, issued, ops, cookie, verifying>>

\* verifyCode(code): throws without a tracked request, returns at once while a
\* verification is in flight, else runs up to the awaited $fetch.
verifyCode(c, code) ==
    /\ UNCHANGED demo
    /\ /\ store.authRequestId /= NoReq
       /\ ~verifying
       /\ FreeSlot(c)
       /\ verifying' = TRUE
       /\ calls' = [calls EXCEPT ![c] = [VerifyCall("verifyCode", code, store.authRequestId)
                                            EXCEPT !.pc = "fetch"]]
       /\ UNCHANGED <<now, prov, authRequests, last, issued, store, ls, cookie, loading>>

\* verifyLink(linkToken, authRequestId?): returns at once while a verification
\* is in flight; the id is the argument, else the store's, else localStorage's.
LinkId(r) ==
    IF r /= NoReq THEN r
    ELSE IF store.authRequestId /= NoReq THEN store.authRequestId ELSE ls.a

verifyLink(c, linkToken, r) ==
    /\ UNCHANGED demo
    /\ /\ ~verifying
       /\ FreeSlot(c)
       /\ verifying' = TRUE
       /\ calls' = [calls EXCEPT ![c] = [VerifyCall("verifyLink", linkToken, LinkId(r))
                                            EXCEPT !.pc = "fetch"]]
       /\ UNCHANGED <<now, prov, authRequests, last, issued, store, ls, cookie, loading>>

\* verifyCode / verifyLink: the response of the verify request arrives.  On
\* success its Set-Cookie is stored and fetchSession() is awaited; otherwise
\* catch / finally.
verifyReply(c) ==
    /\ UNCHANGED demo
    /\ /\ calls[c].op \in {"verifyCode", "verifyLink"} /\ calls[c].pc = "reply"
       /\ IF calls[c].status = 200
          THEN /\ cookie' = [email |-> calls[c].email, exp |-> calls[c].exp, sig |-> Secret]
               /\ calls' = [calls EXCEPT ![c].pc = "session"]
               /\ UNCHANGED <<verifying, last>>
          ELSE /\ verifying' = FALSE
               /\ Done(c, Outcome(c))
               /\ UNCHANGED cookie
       /\ UNCHANGED <<now, prov, authRequests, issued, ops, store, ls, loading>>

\* GET /api/auth/session for the fetchSession() of call c: the handler answers
\* from the cookie the request carries, or the request fails on the way.
sessionGetHandler(c) ==
    /\ UNCHANGED demo
    /\ /\ calls[c].pc = "session"
       /\ \/ calls' = [calls EXCEPT ![c].pc = "sessionReply",
                                    ![c].email = sessionGet(cookie).user]
          \/ calls' = [calls EXCEPT ![c].pc = "sessionFailed", ![c].email = NoEmail]
       /\ UNCHANGED <<now, prov, authRequests, last, issued, ops, client>>

\* fetchSession's continuation: store.setSession(data), or the error is ignored.
setSession(c) ==
    IF calls[c].pc = "sessionReply" THEN [store EXCEPT !.user = calls[c].email] ELSE store

\* verifyCode / verifyLink: fetchSession() returns, the localStorage entry is
\* removed, finally.
verifyDone(c) ==
    /\ UNCHANGED demo
    /\ /\ calls[c].op \in {"verifyCode", "verifyLink"}
       /\ calls[c].pc \in {"sessionReply", "sessionFailed"}
       /\ store' = setSession(c)
       /\ ls' = NoLS
       /\ verifying' = FALSE
       /\ Done(c, Outcome(c))
       /\ UNCHANGED <<now, prov, authRequests, issued, ops, cookie, loading>>

\* fetchSession(): up to the awaited $fetch.
fetchSession(c) ==
    /\ UNCHANGED demo
    /\ /\ FreeSlot(c)
       /\ calls' = [calls EXCEPT ![c] = [Idle EXCEPT !.op = "fetchSession", !.pc = "session"]]
       /\ UNCHANGED <<now, prov, authRequests, last, issued, client>>

\* fetchSession(): the response arrives (or the error is ignored).
fetchSessionDone(c) ==
    /\ UNCHANGED demo
    /\ /\ calls[c].op = "fetchSession"
       /\ calls[c].pc \in {"sessionReply", "sessionFailed"}
       /\ store' = setSession(c)
       /\ Done(c, [NoResult EXCEPT !.op = "fetchSession", !.ok = (calls[c].pc = "sessionReply")])
       /\ UNCHANGED <<now, prov, authRequests, issued, ops, ls, cookie, loading, verifying>>

\* logout(): up to the awaited $fetch.
logout(c) ==
    /\ UNCHANGED demo
    /\ /\ FreeSlot(c)
       /\ calls' = [calls EXCEPT ![c] = [Idle EXCEPT !.op = "logout", !.pc = "fetch"]]
       /\ UNCHANGED <<now, prov, authRequests, last, issued, client>>

\* POST /api/auth/logout: clearUserSession (deleteCookie), or the request fails.
logoutPost(c) ==
    /\ UNCHANGED demo
    /\ /\ calls[c].op = "logout" /\ calls[c].pc = "fetch"
       /\ \/ Respond(c, 200, NoReq, NoEmail, 0)
          \/ Respond(c, 500, NoReq, NoEmail, 0)
       /\ UNCHANGED <<now, prov, authRequests, last, issued, ops, client>>

\* store.reset()
reset == EmptyStore

\* logout(): the response arrives.  Its Set-Cookie deletes pw_sess and
\* store.reset() runs; a failed request throws before store.reset().
logoutReply(c) ==
    /\ UNCHANGED demo
    /\ /\ calls[c].op = "logout" /\ calls[c].pc = "reply"
       /\ IF calls[c].status = 200
          THEN cookie' = NoToken /\ store' = reset
          ELSE UNCHANGED <<cookie, store>>
       /\ Done(c, Outcome(c))
       /\ UNCHANGED <<now, prov, authRequests, issued, ops, ls, loading, verifying>>

\* resetFlow(): the request is forgotten, the session user is kept.
resetFlow ==
    /\ UNCHANGED demo
    /\ /\ store' = [store EXCEPT !.authRequestId = NoReq, !.passwordlessType = NoType,
                                 !.expiresAt = 0]
       /\ loading' = FALSE
       /\ ls' = NoLS
       /\ UNCHANGED <<now, prov, authRequests, calls, last, issued, ops, cookie, verifying>>

\* A page reload: a fresh Pinia store and fresh refs; requests in flight lose
\* their continuations; localStorage and the cookie stay.
reload ==
    /\ UNCHANGED demo
    /\ /\ store' = EmptyStore
       /\ calls' = [c \in Slots |-> Idle]
       /\ loading' = FALSE /\ verifying' = FALSE
       /\ UNCHANGED <<now, prov, authRequests, last, issued, ops, ls, cookie>>

\* What useAuth() reports of its hydration block.
Hydrated(st) ==
    [NoResult EXCEPT !.op = "hydrate", !.ok = (st /= store),
                     !.rid = st.authRequestId, !.exp = st.expiresAt]

\* Variant of hydrate that restores the authRequestId only.
hydrateIdOnly ==
    /\ UNCHANGED demo
    /\ /\ store' = IF store.authRequestId = NoReq /\ ls.a /= NoReq
                   THEN [store EXCEPT !.authRequestId = ls.a]
                   ELSE store
       /\ last' = Hydrated(store')
       /\ UNCHANGED <<now, prov, authRequests, calls, issued, ops, ls, cookie, loading, verifying>>

\* useAuth(): hydrate from localStorage if (!store.authRequestId) and the
\* entry holds an id.
hydrate ==
    /\ UNCHANGED demo
    /\ /\ store' = IF store.authRequestId = NoReq /\ ls.a /= NoReq
                   THEN [store EXCEPT !.authRequestId = ls.a, !.passwordlessType = ls.t,
                                      !.expiresAt = ls.e]
                   ELSE store
       /\ last' = Hydrated(store')
       /\ UNCHANGED <<now, prov, authRequests, calls, issued, ops, ls, cookie, loading, verifying>>

\* ------------------------------------------- POST /api/passwordless/verify
\* The endpoint called with any body (a client other than useAuth can send a
\* code and a link token together).
verifyRequest(c, code, linkToken, r) ==
    /\ FreeSlot(c)
    /\ calls' = [calls EXCEPT ![c] = [Idle EXCEPT !.op = "verify", !.pc = "fetch",
                                                   !.cred = code, !.link = linkToken,
                                                   !.rid = r]]
    /\ UNCHANGED <<now, prov, authRequests, last, issued, client, demo>>

\* verify.post.ts answering the request of call c.
verifyPostBody(c) ==
    /\ calls[c].op = "verify" /\ calls[c].pc = "fetch"
    /\ \E st \in Statuses, e \in Emails \cup {NoEmail}, m \in Msgs :
         /\ verifyHandler(calls[c].cred, calls[c].link, calls[c].rid, st, e, m)
         /\ calls' = [calls EXCEPT ![c].pc = "reply", ![c].status = st, ![c].email = e,
                                   ![c].msg = m,
                                   ![c].exp = IF st = 200 THEN setUserSession(e, now).exp ELSE 0,
                                   ![c].asked = ProviderCalls(calls[c].cred, calls[c].link,
                                                              calls[c].rid)]
    /\ UNCHANGED <<now, authRequests, last, ops, client, demo>>

\* The response reaches the caller; a 200 carries the session cookie.
verifyBodyReply(c) ==
    /\ calls[c].op = "verify" /\ calls[c].pc = "reply"
    /\ cookie' = IF calls[c].status = 200
                 THEN [email |-> calls[c].email, exp |-> calls[c].exp, sig |-> Secret]
                 ELSE cookie
    /\ Done(c, [NoResult EXCEPT !.op = "verify", !.ok = (calls[c].status = 200),
                                !.status = calls[c].status])
    /\ UNCHANGED <<now, prov, authRequests, issued, ops, store, ls, loading, verifying, demo>>

NextVerify ==
    \/ Tick
    \/ \E c \in Slots, e \in Emails : send(c, e)
    \/ \E c \in Slots : sendPost(c)
    \/ \E c \in Slots : sendReply(c)
    \/ \E c \in Slots, r \in ReqArgs :
          \E code \in {NoCred, WrongCred, r}, linkToken \in {NoCred, WrongCred, r} :
             verifyRequest(c, code, linkToken, r)
    \/ \E c \in Slots : verifyPostBody(c)
    \/ \E c \in Slots : verifyBodyReply(c)

SpecVerify == Init /\ [][NextVerify]_vars

\* ------------------------------------------ authService.js (Supabase variant)
\* new AppError('Supabase profile lookup failed', 500, error): the error the
\* profile step throws has a status and no response property (0).
ProfileError == [status |-> 500, response |-> 0]

\* finalizeUserSessionAsync returns: the tracking entry is deleted (if an
\* authRequestId was passed) and {user, verifyResponse} returned.
finalizeReturn(c) ==
    /\ authRequests' = IF calls[c].rid /= NoReq
                          THEN MapDelete(authRequests, calls[c].rid)
                          ELSE authRequests
    /\ issued' = [issued EXCEPT ![Target(calls[c])] = Sat(@)]
    /\ Done(c, Success(c, calls[c].rid))

\* The AppError of the profile step reaches the catch block of verifyWithCode /
\* verifyWithLink, which throws wrapSDKError(e, ...).
finalizeThrow(c) ==
    /\ Done(c, Failure(c, wrapSDKError(ProfileError.response)))
    /\ UNCHANGED <<authRequests, issued>>

\* finalizeUserSessionAsync: the profiles select returns a row, no row
\* (PGRST116), or another error.
supabaseSelect(c) ==
    /\ calls[c].pc = "lookup"
    /\ \/ finalizeReturn(c)
       \/ /\ calls' = [calls EXCEPT ![c].pc = "insert"]
          /\ UNCHANGED <<last, authRequests, issued>>
       \/ finalizeThrow(c)
    /\ UNCHANGED <<now, prov, ops, client, demo>>

\* finalizeUserSessionAsync: the profiles insert returns the new row or an error.
supabaseInsert(c) ==
    /\ calls[c].pc = "insert"
    /\ \/ finalizeReturn(c)
       \/ finalizeThrow(c)
    /\ UNCHANGED <<now, prov, ops, client, demo>>

NextSupabase ==
    \/ Tick
    \/ \E c \in Slots, e \in EmailArgs : sendPasswordlessEmail(c, e)
    \/ \E c \in Slots : sendReturns(c)
    \/ \E c \in Slots, r \in ReqArgs : resendPasswordlessEmail(c, r)
    \/ \E c \in Slots : resendReturns(c)
    \/ \E c \in Slots, r \in ReqArgs : \E cr \in {WrongCred, r} \ {NoCred} : verifyWithCode(c, cr, r)
    \/ \E c \in Slots, cr \in Creds : \E r \in {NoReq, cr} \ {WrongCred} : verifyWithLink(c, cr, r)
    \/ \E c \in Slots : verifyReturns(c)
    \/ \E c \in Slots : supabaseSelect(c)
    \/ \E c \in Slots : supabaseInsert(c)

SpecSupabase == Init /\ [][NextSupabase]_vars

\* ------------------------------------------------------------ mcp-api-demo
McpEmails == {"alice@example.com", "carol@example.com", "dave@example.com"}
UserIdArgs == {NoId, 1, 3}
TaskLists == {<<>>, <<"t1">>, <<"t1", "t3">>, <<"t3", "t3">>, <<"t2">>, <<"bad">>,
              <<"t1", "t2">>, <<"t2", "bad">>, <<"bad", "t2">>, <<"t1", "bad">>}

\* mockDB.users.find((u) => u.id === userId)
findUser(userId) == \E i \in DOMAIN mockDB.users : mockDB.users[i].id = userId

\* mockDB.tasks.find((t) => t.id === tid): the task's index, 0 when there is none
findTask(tid) ==
    IF \E i \in DOMAIN tasks : tasks[i].id = tid
    THEN CHOOSE i \in DOMAIN tasks : tasks[i].id = tid
    ELSE 0

\* Variant of createUserTool that numbers the new user by the current length.
createUserToolIdFromLength(email) ==
    LET id == Len(mockDB.users)
    IN /\ IF \E i \in DOMAIN mockDB.users : mockDB.users[i].email = email
          THEN /\ reply' = [NoReply EXCEPT !.tool = "create_user", !.email = email,
                                           !.code = "ALREADY_EXISTS"]
               /\ UNCHANGED mockDB
          ELSE /\ mockDB' = [mockDB EXCEPT !.users = Append(@, [id |-> id, email |-> email])]
               /\ reply' = [NoReply EXCEPT !.tool = "create_user", !.email = email,
                                           !.code = "ok", !.id = id]
       /\ UNCHANGED <<passwordless, session, reqSession, reqs, completed>>

\* create_user handler, with createUser(user) of mock-api.ts
createUserTool(email) ==
    LET id == Len(mockDB.users) + 1
    IN /\ IF \E i \in DOMAIN mockDB.users : mockDB.users[i].email = email
          THEN /\ reply' = [NoReply EXCEPT !.tool = "create_user", !.email = email,
                                           !.code = "ALREADY_EXISTS"]
               /\ UNCHANGED mockDB
          ELSE /\ mockDB' = [mockDB EXCEPT !.users = Append(@, [id |-> id, email |-> email])]
               /\ reply' = [NoReply EXCEPT !.tool = "create_user", !.email = email,
                                           !.code = "ok", !.id = id]
       /\ UNCHANGED <<passwordless, session, reqSession, reqs, completed>>

\* Variant of taskError that looks for unknown ids in the whole list first.
taskErrorUnknownFirst(taskIds) ==
    IF \E i \in DOMAIN taskIds : findTask(taskIds[i]) = 0 THEN "TASK_NOT_FOUND"
    ELSE IF \E i \in DOMAIN taskIds : ~tasks[findTask(taskIds[i])].isActive THEN "TASK_INACTIVE"
    ELSE "ok"

\* taskIds.map(...): the error the first offending task id raises, "ok" if none
taskError(taskIds) ==
    LET bad == {i \in DOMAIN taskIds :
                   \/ findTask(taskIds[i]) = 0
                   \/ ~tasks[findTask(taskIds[i])].isActive}
    IN IF bad = {} THEN "ok"
       ELSE LET i == CHOOSE j \in bad : \A k \in bad : j <= k
            IN IF findTask(taskIds[i]) = 0 THEN "TASK_NOT_FOUND" ELSE "TASK_INACTIVE"

\* tasks.reduce((sum, t) => sum + t.estimate, 0)
RECURSIVE total(_)
total(taskIds) ==
    IF taskIds = <<>> THEN 0
    ELSE tasks[findTask(Head(taskIds))].estimate + total(Tail(taskIds))

\* Variant of createProjectTool that numbers a project within its user's projects.
createProjectToolIdPerUser(userId, taskIds) ==
    LET code == IF ~findUser(userId) THEN "USER_NOT_FOUND" ELSE taskError(taskIds)
        id == Cardinality({i \in DOMAIN mockDB.projects : mockDB.projects[i].userId = userId}) + 1
    IN /\ IF code /= "ok"
          THEN /\ reply' = [NoReply EXCEPT !.tool = "create_project", !.userId = userId,
                                           !.taskIds = taskIds, !.code = code]
               /\ UNCHANGED mockDB
          ELSE /\ Len(mockDB.projects) < MaxProjects
               /\ mockDB' = [mockDB EXCEPT !.projects =
                                Append(@, [id |-> id, userId |-> userId, taskIds |-> taskIds,
                                           total |-> total(taskIds)])]
               /\ reply' = [NoReply EXCEPT !.tool = "create_project", !.userId = userId,
                                           !.taskIds = taskIds, !.code = "ok", !.id = id,
                                           !.total = total(taskIds)]
       /\ UNCHANGED <<passwordless, session, reqSession, reqs, completed>>

\* create_project handler
createProjectTool(userId, taskIds) ==
    LET code == IF ~findUser(userId) THEN "USER_NOT_FOUND" ELSE taskError(taskIds)
        id == Len(mockDB.projects) + 1
    IN /\ IF code /= "ok"
          THEN /\ reply' = [NoReply EXCEPT !.tool = "create_project", !.userId = userId,
                                           !.taskIds = taskIds, !.code = code]
               /\ UNCHANGED mockDB
          ELSE /\ Len(mockDB.projects) < MaxProjects
               /\ mockDB' = [mockDB EXCEPT !.projects =
                                Append(@, [id |-> id, userId |-> userId, taskIds |-> taskIds,
                                           total |-> total(taskIds)])]
               /\ reply' = [NoReply EXCEPT !.tool = "create_project", !.userId = userId,
                                           !.taskIds = taskIds, !.code = "ok", !.id = id,
                                           !.total = total(taskIds)]
       /\ UNCHANGED <<passwordless, session, reqSession, reqs, completed>>

NextMcp ==
    \/ \E e \in McpEmails : createUserTool(e)
    \/ \E u \in UserIdArgs, t \in TaskLists : createProjectTool(u, t)

SpecMcp == Init /\ [][NextMcp]_vars

\* ------------------------------------------------------------ SSO backend
\* A request's query parameters are present or absent.  sent counts the
\* responses issued for the request (a second one is refused by Node with
\* ERR_HTTP_HEADERS_SENT); status is the status of the first.
Exchange == {"ok", "invalid_grant", "error"}
Express == {4, 5}    \* major versions: 4 drops a rejected handler promise, 5 hands it to next(err)

NewRequest(k) == reqs[k].pc \in {"idle", "done"}

\* router.get('/'): identical in backend/test.js and in the pingidentity backend.
\* There is no return after the first render.
getRoot(k) ==
    /\ NewRequest(k)
    /\ reqs' = [reqs EXCEPT ![k] =
                  [NoRequest EXCEPT !.route = "/", !.pc = "done", !.status = 200,
                                    !.sent = IF session.isloggedin THEN 2 ELSE 1,
                                    !.view = IF session.isloggedin THEN "loggedin" ELSE "index"]]
    /\ UNCHANGED <<passwordless, mockDB, reply, session, reqSession, completed>>

\* backend/test.js, router.get('/callback'): up to the awaited code exchange.
callback(k, code, error, idp) ==
    /\ NewRequest(k)
    /\ LET sent0 == IF idp THEN 1 ELSE 0
           req == [NoRequest EXCEPT !.route = "/callback", !.code = code, !.error = error,
                                    !.idp = idp]
       IN reqs' = [reqs EXCEPT ![k] =
                     IF error
                     THEN [req EXCEPT !.pc = "done", !.sent = sent0 + 1,
                                      !.status = IF idp THEN 200 ELSE 500]
                     ELSE [req EXCEPT !.pc = "exchange", !.sent = sent0,
                                      !.status = IF idp THEN 200 ELSE 0]]
    /\ UNCHANGED <<passwordless, mockDB, reply, session, reqSession, completed>>

\* backend/test.js, router.get('/callback'): after scalekit.authenticateWithCode.
\* The handler has no try/catch: a rejected exchange, and the error a second
\* res.json raises, reject the handler's promise.
callbackExchange(k) ==
    /\ reqs[k].route = "/callback" /\ reqs[k].pc = "exchange"
    /\ \E o \in Exchange, e \in Emails, v \in Express :
         /\ o = "ok" => reqs[k].code
         /\ IF o = "ok" /\ reqs[k].sent = 0
            THEN /\ reqs' = [reqs EXCEPT ![k].pc = "done", ![k].sent = 1, ![k].status = 200]
                 /\ session' = [isloggedin |-> TRUE, email |-> e]
                 /\ completed' = completed \cup {k}
            ELSE IF o = "ok"
            THEN /\ reqs' = [reqs EXCEPT ![k].pc = "done", ![k].sent = 2]
                 /\ UNCHANGED <<session, completed>>
            ELSE /\ reqs' = [reqs EXCEPT ![k].pc = "done",
                                         ![k].sent = IF v = 5 /\ reqs[k].sent = 0 THEN 1 ELSE @,
                                         ![k].status = IF v = 5 /\ reqs[k].sent = 0 THEN 500 ELSE @]
                 /\ UNCHANGED <<session, completed>>
    /\ UNCHANGED <<passwordless, mockDB, reply, reqSession>>

NextSSO ==
    \/ \E k \in Clients : getRoot(k)
    \/ \E k \in Clients, code \in BOOLEAN, error \in BOOLEAN, idp \in BOOLEAN :
          callback(k, code, error, idp)
    \/ \E k \in Clients : callbackExchange(k)

SpecSSO == Init /\ [][NextSSO]_vars

\* pingidentity backend, router.get('/callback'): up to the awaited exchange.
callbackPing(k, code, error, idp) ==
    /\ NewRequest(k)
    /\ LET req == [NoRequest EXCEPT !.route = "/callback", !.code = code, !.error = error,
                                    !.idp = idp]
       IN reqs' = [reqs EXCEPT ![k] =
                     IF idp THEN [req EXCEPT !.pc = "done", !.sent = 1, !.status = 200]
                     ELSE IF error \/ ~code
                     THEN [req EXCEPT !.pc = "done", !.sent = 1, !.status = 400]
                     ELSE [req EXCEPT !.pc = "exchange"]]
    /\ UNCHANGED <<passwordless, mockDB, reply, session, reqSession, completed>>

\* pingidentity backend, router.get('/callback'): the try block and its catch.
callbackPingExchange(k) ==
    /\ reqs[k].route = "/callback" /\ reqs[k].pc = "exchange"
    /\ \E o \in Exchange, e \in Emails :
         IF o = "ok"
         THEN /\ reqSession' = [reqSession EXCEPT ![k] = [isloggedin |-> TRUE, email |-> e]]
              /\ completed' = completed \cup {k}
              /\ reqs' = [reqs EXCEPT ![k].pc = "done", ![k].sent = 1, ![k].status = 200]
         ELSE /\ reqs' = [reqs EXCEPT ![k].pc = "done", ![k].sent = 1,
                                      ![k].status = IF o = "invalid_grant" THEN 400 ELSE 500]
              /\ UNCHANGED <<reqSession, completed>>
    /\ UNCHANGED <<passwordless, mockDB, reply, session>>

NextPing ==
    \/ \E k \in Clients : getRoot(k)
    \/ \E k \in Clients, code \in BOOLEAN, error \in BOOLEAN, idp \in BOOLEAN :
          callbackPing(k, code, error, idp)
    \/ \E k \in Clients : callbackPingExchange(k)

SpecPing == Init /\ [][NextPing]_vars

\* store.setAuthRequest on its own, for every store and every response shape.
TypeVals == {NoType} \cup Modes \cup NumericTypes
Resps == [authRequestId : ReqArgs, auth_request_id : ReqArgs,
          passwordlessType : TypeVals, passwordless_type : TypeVals,
          expiresAt : {0, TTL}, expires_at : {0, MaxTime + TTL}]
Stores == [user : {NoEmail}, authRequestId : ReqArgs,
           passwordlessType : Modes \cup {NoType}, expiresAt : {0, TTL}]

InitStore ==
    /\ InitDemo
    /\ store \in Stores
    /\ calls \in {[c \in Slots |-> IF c = 1 THEN [Idle EXCEPT !.op = "send", !.pc = "reply",
                                                              !.status = 200, !.resp = r]
                                             ELSE Idle] : r \in Resps}
    /\ ops = 1
    /\ now = 0
    /\ prov = [r \in ReqIds |-> NoProv]
    /\ last = NoResult
    /\ issued = [r \in ReqIds |-> 0]
    /\ authRequests = <<>>
    /\ ls = NoLS
    /\ cookie = NoToken
    /\ loading = TRUE
    /\ verifying = FALSE

\* send: store.setAuthRequest(resp) and localStorage.setItem for the response
\* call c holds.
setAuthRequestApply(c) ==
    /\ UNCHANGED demo
    /\ /\ calls[c].op = "send" /\ calls[c].pc = "reply" /\ calls[c].resp /= NoResp
       /\ store' = setAuthRequestResp(store, calls[c].resp)
       /\ ls' = Persist(store')
       /\ calls' = [calls EXCEPT ![c].pc = "applied"]
       /\ UNCHANGED <<now, prov, authRequests, last, issued, ops, cookie, loading, verifying>>

NextStore == \E c \in Slots : setAuthRequestApply(c)

SpecStore == InitStore /\ [][NextStore]_vars

\* send, resend, reload and useAuth() on their own.
NextHydrate ==
    \/ Tick
    \/ \E c \in Slots, e \in Emails : send(c, e)
    \/ \E c \in Slots : sendPost(c)
    \/ \E c \in Slots : sendReply(c)
    \/ \E c \in Slots : sendAbort(c)
    \/ \E c \in Slots : resend(c)
    \/ \E c \in Slots : resendPost(c)
    \/ \E c \in Slots : resendReply(c)
    \/ reload
    \/ hydrate

SpecHydrate == Init /\ [][NextHydrate]_vars

NextNuxt ==
    \/ Tick
    \/ \E c \in Slots, e \in Emails \cup {NoEmail} : send(c, e)
    \/ \E c \in Slots : sendPost(c)
    \/ \E c \in Slots : sendReply(c)
    \/ \E c \in Slots : sendAbort(c)
    \/ \E c \in Slots : resend(c)
    \/ \E c \in Slots : resendPost(c)
    \/ \E c \in Slots : resendReply(c)
    \/ \E c \in Slots, code \in {NoCred, WrongCred, store.authRequestId} : verifyCode(c, code)
    \/ \E c \in Slots, cr \in Creds : \E r \in {NoReq, cr} \ {WrongCred} : verifyLink(c, cr, r)
    \/ \E c \in Slots : verifyPost(c)
    \/ \E c \in Slots : verifyReply(c)
    \/ \E c \in Slots : sessionGetHandler(c)
    \/ \E c \in Slots : verifyDone(c)
    \/ \E c \in Slots : fetchSession(c)
    \/ \E c \in Slots : fetchSessionDone(c)
    \/ \E c \in Slots : logout(c)
    \/ \E c \in Slots : logoutPost(c)
    \/ \E c \in Slots : logoutReply(c)
    \/ resetFlow

SpecNuxt == Init /\ [][NextNuxt]_vars

\* send() on its own.  The timer set with setTimeout(..., 15000) fires unless
\* the call has finished, hence the fairness on sendAbort.
NextSend ==
    \/ Tick
    \/ \E c \in Slots, e \in Emails \cup {NoEmail} : send(c, e)
    \/ \E c \in Slots : sendPost(c)
    \/ \E c \in Slots : sendReply(c)
    \/ \E c \in Slots : sendAbort(c)

SpecSend == Init /\ [][NextSend]_vars /\ \A c \in Slots : WF_vars(sendAbort(c))

\* The session query and logout on their own, for every cookie a browser can
\* present: no cookie, a token setUserSession made, an expired one, a forged one.
Tokens == {NoToken} \cup [email : Emails, exp : 0..(MaxTime + SessionTTL), sig : {Secret, Forged}]

InitSession ==
    /\ InitDemo
    /\ now \in 0..MaxTime
    /\ cookie \in Tokens
    /\ store \in {[EmptyStore EXCEPT !.user = u] : u \in Emails \cup {NoEmail}}
    /\ prov = [r \in ReqIds |-> NoProv]
    /\ calls = [c \in Slots |-> Idle]
    /\ last = NoResult
    /\ issued = [r \in ReqIds |-> 0]
    /\ ops = 0
    /\ authRequests = <<>>
    /\ ls = NoLS
    /\ loading = FALSE
    /\ verifying = FALSE

NextSession ==
    \/ Tick
    \/ \E c \in Slots : fetchSession(c)
    \/ \E c \in Slots : sessionGetHandler(c)
    \/ \E c \in Slots : fetchSessionDone(c)
    \/ \E c \in Slots : logout(c)
    \/ \E c \in Slots : logoutPost(c)
    \/ \E c \in Slots : logoutReply(c)

SpecSession == InitSession /\ [][NextSession]_vars

Next ==
    \/ Tick
    \/ \E c \in Slots, e \in EmailArgs : sendPasswordlessEmail(c, e)
    \/ \E c \in Slots : sendReturns(c)
    \/ \E c \in Slots, r \in ReqArgs : resendPasswordlessEmail(c, r)
    \/ \E c \in Slots : resendReturns(c)
    \/ \E c \in Slots, r \in ReqArgs : \E cr \in {WrongCred, r} \ {NoCred} : verifyWithCode(c, cr, r)
    \/ \E c \in Slots, cr \in Creds : \E r \in {NoReq, cr} \ {WrongCred} : verifyWithLink(c, cr, r)
    \/ \E c \in Slots : verifyReturns(c)
    \/ \E c \in Slots : finalizeLookup(c)
    \/ \E c \in Slots : finalizeInsert(c)
    \/ \E c \in Slots : finalizeToken(c)

Spec == Init /\ [][Next]_vars
\* ------------------------------------------------------------------ claims
VerifyOps == {"verifyCode", "verifyLink"}

\* Slot c's call starts in this step.
Starts(c) == calls[c].pc = "idle" /\ calls'[c].pc /= "idle"

\* Slot c's call completes in this step (its result is last').
Completes(c) == calls[c].pc /= "idle" /\ calls'[c].pc = "idle"

\* Slot c's verification returns session data in this step.
ReturnsSession(c) == calls[c].op \in VerifyOps /\ Completes(c) /\ last'.ok

\* C1: two concurrent verifyWithCode calls with the right code for one
\* request never both return a session: a call that returns a session finds
\* that no session was returned for its request while it was in flight.
C1_OneSessionUnderRace ==
    [][\A c \in Slots :
         (calls[c].op = "verifyCode" /\ ReturnsSession(c))
             => issued[calls[c].rid] = calls[c].base]_vars

\* C2: once the tracking entry of a request was deleted by a successful
\* verification, a later verification for that id is answered locally (it
\* never waits on the provider) and never returns a session.
C2_ConsumedAnsweredLocally ==
    [][\A c \in Slots :
         /\ (Starts(c) /\ calls'[c].op \in VerifyOps /\ calls'[c].rid \in Consumed)
                => calls'[c].pc /= "provider"
         /\ (ReturnsSession(c) /\ calls[c].rid \in Consumed) => FALSE]_vars

\* C4 (service layer): a link verification without an authRequestId never
\* reaches the provider.
C4_LinkNeedsRequestId ==
    \A c \in Slots :
        ~(calls[c].op = "verifyLink" /\ calls[c].rid = NoReq /\ calls[c].pc = "provider")

\* C5: after a second send for the same email the request of the first send
\* is no longer tracked.
C5_SecondSendReplacesFirst ==
    \A r1, r2 \in ReqIds :
        (r1 < r2 /\ prov[r2].st /= "none" /\ prov[r1].email = prov[r2].email)
            => r1 \notin Tracked

\* C6: the store tracks at most one unexpired request per email.
C6_OnePendingPerEmail ==
    \A r1, r2 \in Tracked :
        (r1 /= r2 /\ authRequests[r1].email = authRequests[r2].email)
            => (now >= prov[r1].exp \/ now >= prov[r2].exp)

\* C7: a verification that fails leaves authRequests as it was, and an entry
\* is removed only by the step in which a verification the provider accepted
\* returns its session data.
C7_FailedVerifyKeepsEntry ==
    [][/\ \A c \in Slots :
            (calls[c].op \in VerifyOps /\ Completes(c) /\ ~last'.ok)
                => authRequests' = authRequests
       /\ (Tracked \ Tracked' /= {})
            => \E c \in Slots : /\ ReturnsSession(c)
                                /\ calls[c].pc = "token"
                                /\ Tracked \ Tracked' = {calls[c].rid}]_vars

\* C7 witness: a verification with a wrong code has just failed, the entry is
\* still tracked and the provider would still accept the right code.
C7_Witness ==
    /\ last.op = "verifyCode" /\ ~last.ok /\ last.status = 401
    /\ last.rid \in Tracked
    /\ prov[last.rid].st = "live" /\ now < prov[last.rid].exp

\* C8: a resend for an id that is not tracked is refused locally: it never
\* goes out to the provider.
C8_ResendOnlyTracked ==
    [][\A c \in Slots :
         (Starts(c) /\ calls'[c].op = "resend" /\ calls'[c].rid \notin Tracked)
             => calls'[c].pc /= "provider"]_vars

\* C10: no step of a resend call, successful or failed, changes the set of
\* tracked request ids.
C10_ResendKeepsTrackedSet ==
    [][\A c \in Slots :
         ((Starts(c) /\ calls'[c].op = "resend") \/ (calls[c].op = "resend" /\ Completes(c)))
             => Tracked' = Tracked]_vars

\* C10 witness: a resend has succeeded for an id that is not tracked any more
\* (its entry was consumed), and it is still not tracked.
C10_Witness ==
    /\ last.op = "resend" /\ last.ok
    /\ last.rid \in Consumed

\* C3: a session is set only for the email of an initiated request, and no
\* request yields a session more than once.
C3_SessionOncePerRequest ==
    /\ \A r \in ReqIds : issued[r] <= 1
    /\ cookie /= NoToken
         => \E r \in ReqIds : prov[r].st /= "none" /\ prov[r].email = cookie.email

\* Slot c's resend succeeds in this step.
ResendSucceeds(c) ==
    calls[c].op = "resend" /\ calls[c].pc = "reply" /\ calls[c].status = 200 /\ Completes(c)

\* C9 as stated: a successful resend keeps the tracked authRequestId and makes
\* the tracked expiresAt strictly later than it was when resend was called.
C9_ResendStrictlyLater ==
    [][\A c \in Slots :
         ResendSucceeds(c)
             => /\ store'.authRequestId = calls[c].rid
                /\ store'.expiresAt > calls[c].pre]_vars

\* C9 amended: a successful resend keeps the tracked authRequestId and sets
\* the tracked expiresAt to the expiry the provider reported, which is never
\* earlier than the expiry tracked when resend was called.
C9_ResendKeepsIdRenewsExpiry ==
    [][\A c \in Slots :
         ResendSucceeds(c)
             => /\ store'.authRequestId = calls[c].rid
                /\ store'.expiresAt = calls[c].exp
                /\ store'.expiresAt >= calls[c].pre]_vars

\* C9 witness: a resend made after the clock moved has succeeded: the same id
\* is tracked and its expiry is the provider's, later than before.
C9_Witness ==
    /\ last.op = "resend" /\ last.ok
    /\ store.authRequestId = last.rid
    /\ store.expiresAt = last.exp
    /\ last.exp > last.pre

\* C11: a provider failure that is surfaced as a server-side error (5xx) is
\* surfaced as 502 ProviderUnavailable, and the failed call leaves
\* authRequests as it was.
C11_TransientIs502 ==
    [][\A c \in Slots :
         (Completes(c) /\ ~last'.ok /\ last'.status >= 500)
             => /\ last'.status = 502
                /\ authRequests' = authRequests]_vars

\* The provider-side lifetime of request r has passed.
Expired(r) == r \in ReqIds /\ prov[r].st /= "none" /\ now >= prov[r].exp

C13_EmptyVerifyRejected ==
    [][\A c \in Slots :
         /\ (/\ calls[c].op \in VerifyOps /\ calls[c].pc = "fetch"
             /\ calls[c].cred = NoCred
             /\ calls'[c].pc = "reply")
                => /\ calls'[c].status = 400 /\ calls'[c].msg = MsgRequired
                   /\ prov' = prov /\ issued' = issued /\ cookie' = cookie
         /\ (calls[c].pc = "reply" /\ calls[c].msg = MsgRequired /\ calls'[c] /= calls[c])
                => /\ cookie' = cookie
                   /\ Completes(c) /\ ~last'.ok]_vars

\* C13 witness: the server has answered a verifyCode request without a code.
C13_Witness ==
    \E c \in Slots :
        /\ calls[c].op = "verifyCode" /\ calls[c].pc = "reply"
        /\ calls[c].status = 400 /\ calls[c].msg = MsgRequired

\* C14: a send for a string that is not an e-mail address never reaches the
\* provider and never gets a tracking entry.
C14_InvalidEmailRejected ==
    /\ \A c \in Slots :
         ~(calls[c].op = "send" /\ calls[c].pc = "provider" /\ calls[c].email \notin Emails)
    /\ \A r \in Tracked : authRequests[r].email \in Emails

\* C15: a verify failure that comes from the provider (a rejected code or
\* link) is never reported with 400, the status of the handler's own input
\* checks: each kind of failure has its own status.
C15_DistinctFailureStatus ==
    \A c \in Slots :
        (calls[c].op \in VerifyOps /\ calls[c].pc = "reply" /\ calls[c].msg = MsgProvider)
            => calls[c].status \notin {200, 400}

\* The token was signed with the server's secret and has not expired.
ValidToken(tok) == tok /= NoToken /\ tok.sig = Secret /\ now < tok.exp

\* C16: the session query answers authenticated with the token's email
\* exactly when the cookie is a validly signed, unexpired token, and not
\* authenticated with no user for a missing, forged or expired one; the answer
\* a request gets is that function of the cookie it carried.
C16_SessionFromCredential ==
    [][/\ \A tok \in Tokens :
            /\ sessionGet(tok).authenticated <=> ValidToken(tok)
            /\ sessionGet(tok).user = IF ValidToken(tok) THEN tok.email ELSE NoEmail
       /\ \A c \in Slots :
            (calls[c].pc = "session" /\ calls'[c].pc = "sessionReply")
                => calls'[c].email = IF ValidToken(cookie) THEN cookie.email ELSE NoEmail]_vars

\* C16 witness: a session query that carried a forged, unexpired token was
\* answered with no user.
C16_Witness ==
    /\ last.op = "fetchSession" /\ last.ok
    /\ cookie /= NoToken /\ cookie.sig = Forged /\ now < cookie.exp
    /\ store.user = NoEmail

\* The client is logged out: a session query would answer not authenticated
\* and the store holds no user.
LoggedOut == ~sessionGet(cookie).authenticated /\ store.user = NoEmail

\* A step of a verifyCode / verifyLink call.
VerifyStep == \E c \in Slots : calls[c].op \in VerifyOps /\ calls'[c] /= calls[c]

\* C17: when a logout completes the client is logged out, and while that
\* logout is the call that completed last the client stays logged out through
\* every step that is not a step of a verify call.
C17_LogoutStays ==
    [][/\ \A c \in Slots :
            (calls[c].op = "logout" /\ calls[c].status = 200 /\ Completes(c)) => LoggedOut'
       /\ (last.op = "logout" /\ last.ok /\ LoggedOut /\ ~VerifyStep) => LoggedOut']_vars

\* C18: at most one verifyCode / verifyLink call is in flight at any time, and
\* verifying is false whenever none is.
C18_OneVerifyInFlight ==
    /\ Cardinality({c \in Slots : calls[c].op \in VerifyOps}) <= 1
    /\ (\A c \in Slots : calls[c].op \notin VerifyOps) => ~verifying

\* C19: when a verifyCode / verifyLink call returns successfully the client
\* tracks no request: the store's authRequestId and the localStorage entry are
\* cleared; and a resend response handled after that leaves them cleared.
C19_VerifyClearsRequest ==
    [][\A c \in Slots :
         /\ (calls[c].op \in VerifyOps /\ Completes(c) /\ last'.ok)
                => (store'.authRequestId = NoReq /\ ls' = NoLS)
         /\ (/\ calls[c].op = "resend" /\ Completes(c)
             /\ store.authRequestId = NoReq /\ ls = NoLS)
                => (store'.authRequestId = NoReq /\ ls' = NoLS)]_vars

\* C20: every send call finishes; when it does loading is false, and when it
\* finishes without a response (failure or timeout) the store and the
\* localStorage entry are what they were.
C20_SendTerminatesCleanly ==
    /\ [][\A c \in Slots :
            (calls[c].op = "send" /\ Completes(c))
                => /\ loading' = FALSE
                   /\ ~last'.ok => (store' = store /\ ls' = ls)]_vars
    /\ \A c \in Slots : (calls[c].op = "send") ~> (calls[c].op /= "send")

\* C20 witness: a send has failed or timed out after an earlier send had
\* succeeded; the request of the earlier send is still tracked and persisted.
C20_Witness ==
    /\ last.op = "send" /\ ~last.ok
    /\ store.authRequestId /= NoReq
    /\ ls = Persist(store)
    /\ ~loading

\* The call that completed last is a successful send or resend.
LastSentOk == last.op \in {"send", "resend"} /\ last.ok

OwnKey(c) == IF calls[c].op = "send" THEN NoReq ELSE calls[c].rid

\* C22: a step of a call leaves the tracking entry of every other
\* authRequestId exactly as it was.
C22_OtherEntriesUntouched ==
    [][\A c \in Slots : \A r \in Tracked :
         (calls'[c] /= calls[c] /\ r /= OwnKey(c))
             => (r \in Tracked' /\ authRequests'[r] = authRequests[r])]_vars

\* C22 witness: with requests of two emails tracked, a verification of one has
\* succeeded and removed its entry; the other email's entry is still there.
C22_Witness ==
    /\ last.op \in VerifyOps /\ last.ok
    /\ last.rid \in ReqIds /\ last.rid \notin Tracked
    /\ \E r \in Tracked : authRequests[r].email /= prov[last.rid].email

\* The mode a response carries: passwordlessType, else passwordless_type.
WireType(resp) == TypeOr(resp.passwordlessType, resp.passwordless_type)

\* C23: setAuthRequest takes the mode from passwordlessType, else from
\* passwordless_type; 1, 2, 3 become OTP, LINK, LINK_OTP; a field the response
\* omits, and a numeric mode outside 1..3, keep the store's value; the stored
\* mode is one of the mode strings or null.
C23_SetAuthRequestNormalises ==
    [][\A c \in Slots :
         (calls[c].pc = "reply" /\ calls'[c].pc = "applied")
           => LET resp == calls[c].resp
                  id == IF resp.authRequestId /= NoReq THEN resp.authRequestId
                        ELSE resp.auth_request_id
                  ex == IF resp.expiresAt /= 0 THEN resp.expiresAt ELSE resp.expires_at
              IN /\ store'.passwordlessType =
                       CASE WireType(resp) \in Modes -> WireType(resp)
                         [] WireType(resp) = "#1" -> "OTP"
                         [] WireType(resp) = "#2" -> "LINK"
                         [] WireType(resp) = "#3" -> "LINK_OTP"
                         [] OTHER -> store.passwordlessType
                 /\ store'.passwordlessType \in Modes \cup {NoType}
                 /\ store'.authRequestId = IF id /= NoReq THEN id ELSE store.authRequestId
                 /\ store'.expiresAt = IF ex /= 0 THEN ex ELSE store.expiresAt
                 /\ store'.user = store.user]_vars

\* C23 witness: a response with the numeric mode 3 in passwordless_type only,
\* and no expiry, has been applied: the mode is LINK_OTP.
C23_Witness ==
    \E c \in Slots :
        /\ calls[c].pc = "applied"
        /\ calls[c].resp.passwordlessType = NoType
        /\ calls[c].resp.passwordless_type = "#3"
        /\ calls[c].resp.expiresAt = 0 /\ calls[c].resp.expires_at = 0
        /\ store.passwordlessType = "LINK_OTP"

\* A step of the named tool.
ToolStep(tool) == reply'.tool = tool /\ <<mockDB, reply>>' /= <<mockDB, reply>>
Registered(email) == \E i \in DOMAIN mockDB.users : mockDB.users[i].email = email
UniqueUsers ==
    \A i, j \in DOMAIN mockDB.users :
        i /= j => /\ mockDB.users[i].email /= mockDB.users[j].email
                  /\ mockDB.users[i].id /= mockDB.users[j].id

\* C24: create_user with a registered email throws ALREADY_EXISTS and leaves the
\* user list as it was; otherwise it appends exactly one user, with that email;
\* no two users ever share an email or an id.
C24_CreateUserKeepsUsersUnique ==
    [][/\ UniqueUsers /\ UniqueUsers'
       /\ ToolStep("create_user")
            => IF Registered(reply'.email)
               THEN reply'.code = "ALREADY_EXISTS" /\ mockDB'.users = mockDB.users
               ELSE /\ reply'.code = "ok"
                    /\ Len(mockDB'.users) = Len(mockDB.users) + 1
                    /\ SubSeq(mockDB'.users, 1, Len(mockDB.users)) = mockDB.users
                    /\ mockDB'.users[Len(mockDB'.users)].email = reply'.email]_vars

\* C24 witness: two users were created and a registered email was then refused.
C24_Witness ==
    /\ Len(mockDB.users) = 4
    /\ reply.tool = "create_user" /\ reply.code = "ALREADY_EXISTS"

UnknownTask(taskIds) == \E i \in DOMAIN taskIds : findTask(taskIds[i]) = 0
InactiveTask(taskIds) ==
    \E i \in DOMAIN taskIds : findTask(taskIds[i]) /= 0 /\ ~tasks[findTask(taskIds[i])].isActive

\* C25 as stated: USER_NOT_FOUND whenever the user id is unknown, TASK_NOT_FOUND
\* whenever a listed task id is unknown, TASK_INACTIVE whenever a listed task is
\* inactive, the project list unchanged in each case.
C25_EachFaultItsCode ==
    [][ToolStep("create_project")
         => /\ ~findUser(reply'.userId) => reply'.code = "USER_NOT_FOUND"
            /\ UnknownTask(reply'.taskIds) => reply'.code = "TASK_NOT_FOUND"
            /\ InactiveTask(reply'.taskIds) => reply'.code = "TASK_INACTIVE"
            /\ (\/ ~findUser(reply'.userId) \/ UnknownTask(reply'.taskIds)
                \/ InactiveTask(reply'.taskIds)) => mockDB'.projects = mockDB.projects]_vars

\* The first listed task that is unknown or inactive, 0 if there is none.
FirstFault(taskIds) ==
    LET bad == {i \in DOMAIN taskIds : findTask(taskIds[i]) = 0
                                         \/ ~tasks[findTask(taskIds[i])].isActive}
    IN IF bad = {} THEN 0 ELSE CHOOSE j \in bad : \A k \in bad : j <= k

\* C25, amended: create_project fails and leaves the project list unchanged
\* whenever the user id is unknown, a listed task id is unknown or a listed task
\* is inactive.  The code is USER_NOT_FOUND when the user id is unknown;
\* otherwise the first offending task in list order decides: TASK_NOT_FOUND if
\* its id is unknown, TASK_INACTIVE if it is inactive.
C25_FirstFaultDecides ==
    [][ToolStep("create_project")
         => LET u == reply'.userId
                t == reply'.taskIds
                f == FirstFault(t)
            IN /\ ~findUser(u) => reply'.code = "USER_NOT_FOUND"
               /\ (findUser(u) /\ f /= 0 /\ findTask(t[f]) = 0)
                    => reply'.code = "TASK_NOT_FOUND"
               /\ (findUser(u) /\ f /= 0 /\ findTask(t[f]) /= 0)
                    => reply'.code = "TASK_INACTIVE"
               /\ (~findUser(u) \/ f /= 0)
                    => reply'.code /= "ok" /\ mockDB'.projects = mockDB.projects]_vars

\* C25 witness: a project exists and a later call naming an inactive task and
\* then an unknown one was refused with TASK_INACTIVE.
C25_Witness ==
    /\ Len(mockDB.projects) > 0
    /\ reply.tool = "create_project" /\ reply.taskIds = <<"t2", "bad">>
    /\ reply.userId = 1 /\ reply.code = "TASK_INACTIVE"

RECURSIVE SumEstimates(_)
SumEstimates(taskIds) ==
    IF taskIds = <<>> THEN 0
    ELSE (CHOOSE e \in 0..5 : \E i \in DOMAIN tasks :
              tasks[i].id = Head(taskIds) /\ tasks[i].estimate = e)
         + SumEstimates(Tail(taskIds))

\* C26: create_project for an existing user and existing, active tasks appends
\* exactly one project; its total is the sum of the listed tasks' estimates and
\* its id is the id of no project stored before.
C26_ProjectAppended ==
    [][(/\ ToolStep("create_project")
        /\ findUser(reply'.userId)
        /\ ~UnknownTask(reply'.taskIds) /\ ~InactiveTask(reply'.taskIds))
         => /\ reply'.code = "ok"
            /\ Len(mockDB'.projects) = Len(mockDB.projects) + 1
            /\ SubSeq(mockDB'.projects, 1, Len(mockDB.projects)) = mockDB.projects
            /\ LET p == mockDB'.projects[Len(mockDB'.projects)]
               IN /\ p.total = SumEstimates(reply'.taskIds)
                  /\ p.userId = reply'.userId /\ p.taskIds = reply'.taskIds
                  /\ \A i \in DOMAIN mockDB.projects : mockDB.projects[i].id /= p.id]_vars

\* C26 witness: a second project, for a user created after start and naming one
\* task twice, was stored with total 4.
C26_Witness ==
    /\ Len(mockDB.projects) = 2
    /\ reply.tool = "create_project" /\ reply.code = "ok"
    /\ reply.userId = 3 /\ reply.taskIds = <<"t3", "t3">>
    /\ mockDB.projects[2].total = 4

\* C27: every request to /callback, and every GET /, is answered with exactly
\* one response.
C27_ExactlyOneResponse ==
    \A k \in Clients : reqs[k].pc = "done" => reqs[k].sent = 1

\* C28: a GET / is treated as logged in exactly when its own client completed
\* /callback before.
C28_LoginPerCaller ==
    \A k \in Clients :
        (reqs[k].route = "/" /\ reqs[k].pc = "done")
          => (reqs[k].view = "loggedin" <=> k \in completed)

\* C29: a verification the provider accepted and whose profile step then failed
\* is reported with the profile step's status, 500, which is not the status of
\* a provider failure without a response (502), and returns no session data.
C29_ProfileFailureStatus ==
    [][\A c \in Slots :
         (calls[c].pc \in {"lookup", "insert"} /\ calls'[c].pc = "idle" /\ ~last'.ok)
           => /\ last'.status = ProfileError.status
              /\ last'.status /= wrapSDKError(0)
              /\ issued' = issued]_vars

\* C30: a verify request makes at most one provider call; a body with a code
\* and a link token is verified by the code alone, and without an
\* authRequestId it is refused with 400 and no provider call.
C30_OneProviderCall ==
    [][\A c \in Slots :
         (calls[c].op = "verify" /\ calls[c].pc = "fetch" /\ calls'[c].pc = "reply")
           => /\ Len(calls'[c].asked) <= 1
              /\ (calls[c].cred /= NoCred /\ calls[c].link /= NoCred /\ calls[c].rid /= NoReq)
                   => /\ calls'[c].asked = <<[op |-> "verifyCode", cred |-> calls[c].cred,
                                              rid |-> calls[c].rid]>>
                      /\ calls'[c].status = 200
                           => /\ calls[c].cred = calls[c].rid
                              /\ prov[calls[c].rid].st = "live"
              /\ (calls[c].cred /= NoCred /\ calls[c].link /= NoCred /\ calls[c].rid = NoReq)
                   => /\ calls'[c].asked = <<>>
                      /\ calls'[c].status = 400
                      /\ prov' = prov /\ issued' = issued]_vars

\* C30 witness: a body with a wrong code, the right link token and the
\* authRequestId was refused after one call; the request is still live.
C30_Witness ==
    \E c \in Slots :
        /\ calls[c].op = "verify" /\ calls[c].pc = "reply"
        /\ calls[c].cred = WrongCred /\ calls[c].link = calls[c].rid /\ calls[c].rid \in ReqIds
        /\ prov[calls[c].rid].st = "live" /\ now < prov[calls[c].rid].exp
        /\ Len(calls[c].asked) = 1 /\ calls[c].status = 400
====
